---- MODULE Spec2Model ----
(***************************************************************************)
(* A state-machine model of the hyper_log media pipeline.                  *)
(*                                                                         *)
(*   src/main.py     fetch bookmarks and chat history, filter by window,   *)
(*                   deduplicate, probe and download, post-check, encode   *)
(*                   to normalized/<stem>.mp4, accumulate timestamps       *)
(*   src/youtube.py  credential load / refresh / flow / persist, upload    *)
(*                                                                         *)
(* main.py is a linear script: pc is the position in it and every action   *)
(* is one block of the script (one loop iteration for the loops).  The     *)
(* results of HTTP requests and of external processes (yt-dlp, ffprobe,    *)
(* ffmpeg) are inputs: each action draws them with \E from a small set.    *)
(*                                                                         *)
(* Time is in seconds on a small axis; epoch timestamps are milliseconds   *)
(* (seconds * 1000), as in the code.  Durations are kept in milliseconds   *)
(* so that the fractional durations ffprobe prints are represented.  The   *)
(* running total of the durations is a float: its exact value and the side *)
(* on which the rounding of the additions left it.                         *)
(***************************************************************************)
EXTENDS Integers, Sequences, FiniteSets, TLC

VARIABLES
    pc,                 \* position in main.py
    merge_only,         \* args.merge_only
    start_date,         \* args.start_date (ISO string)
    end_date,           \* args.end_date (ISO string)
    local_offset,       \* UTC offset of the machine's local time zone, seconds
    matrix_token,       \* os.getenv('MATRIX_ACCESS_TOKEN') is set
    start_ts,           \* main.py:94
    end_ts,             \* main.py:95
    response,           \* Karakeep JSON response, main.py:98
    filtered_bookmarks, \* main.py:111
    urls,               \* main.py:117, main.py:159
    matrix_urls,        \* main.py:127
    from_token,         \* main.py:129
    matrix_resp,        \* main.py:140
    requests,           \* the 'from' parameter of every /messages request sent
    error,              \* uncaught exception that ended the script, or "none"
    video_metadata,     \* main.py:166 / main.py:244
    url_idx,            \* position of the loop at main.py:169
    calls,              \* subprocess.run invocations, in order, with results
    downloads,          \* the names in directory downloads/<date>
    metadata_file,      \* compilation/<date>_metadata.json: exists, content
    all_files,          \* main.py:219
    files,              \* main.py:220 / main.py:239
    file_idx,           \* position of the loops at main.py:221 and main.py:251
    normalized,         \* directory downloads/<date>/normalized: stem -> size
    normalized_files,   \* main.py:250
    compilation_videos, \* main.py:297
    cumulative_timestamp, \* main.py:298, a float: see Float
    video_idx,          \* position of the loop at main.py:300
    total_duration_str, \* main.py:354
    filelist,           \* compilation/<date>_filelist.txt, one entry per line
    run,                \* number of the current invocation of main.py
    template_file,      \* templates/bookmark_report.md.j2 is there, main.py:379
    yt_pc,              \* position in youtube.py
    token_file,         \* .youtube_token.pickle: exists, content
    initial_token,      \* .youtube_token.pickle when youtube.py started
    creds,              \* youtube.py:56
    auth_log,           \* refresh / flow / token-file writes, in order
    youtube,            \* youtube.py:99, the built service (or NoService)
    compilation_dir,    \* compilation/: exists, its *.mp4 files (name -> mtime)
    video_file          \* youtube.py:104

main_vars ==
    << pc, merge_only, start_date, end_date, local_offset, matrix_token,
       start_ts, end_ts, response, filtered_bookmarks, urls, matrix_urls,
       from_token, matrix_resp, requests, error, video_metadata, url_idx,
       calls, downloads, metadata_file, all_files, files, file_idx,
       normalized, normalized_files, compilation_videos,
       cumulative_timestamp, video_idx, total_duration_str, filelist, run,
       template_file >>

yt_vars ==
    << yt_pc, token_file, initial_token, creds, auth_log, youtube,
       compilation_dir, video_file >>

\* the variables of youtube.py other than the directory main.py writes into
yt_rest ==
    << yt_pc, token_file, initial_token, creds, auth_log, youtube, video_file >>

vars == << main_vars, yt_vars >>

fetch_vars ==
    << start_ts, end_ts, response, filtered_bookmarks, urls, matrix_urls,
       from_token, matrix_resp, requests >>

merge_vars ==
    << files, file_idx, normalized, normalized_files, compilation_videos,
       cumulative_timestamp, video_idx, total_duration_str, filelist >>

\* what an invocation is started with: arguments, time zone, environment and
\* the report template of the working directory
arg_vars ==
    << merge_only, start_date, end_date, local_offset, matrix_token,
       template_file >>

----------------------------------------------------------------------------
(* Bounds of the model.                                                    *)

MaxBookmarks == 2   \* bookmarks in one Karakeep response
MaxChunk == 2       \* events in one page of chat history
MaxPages == 2       \* pages of chat history requested in one run

\* The time axis, in seconds.
TimeValues == 0 .. 3

----------------------------------------------------------------------------
(* Generic helpers.                                                        *)

SeqsUpTo(S, n) == UNION { [1 .. k -> S] : k \in 0 .. n }

Range(s) == { s[i] : i \in DOMAIN s }

RECURSIVE Flatten(_)
Flatten(ss) == IF ss = << >> THEN << >> ELSE Head(ss) \o Flatten(Tail(ss))

\* All orders in which the elements of a finite set can be listed once each.
Orderings(S) ==
    { s \in [1 .. Cardinality(S) -> S] : \A x \in S : \E i \in DOMAIN s : s[i] = x }

Count(s, x) == Cardinality({ i \in DOMAIN s : s[i] = x })

----------------------------------------------------------------------------
(* Values standing for Python's None and for variables not yet assigned.   *)

None == "<None>"
NoResponse == [bookmarks |-> << >>]
NoPage == [has_chunk |-> FALSE, chunk |-> << >>, end |-> None]

----------------------------------------------------------------------------
(* ISO-8601 date strings and datetime.                                     *)
(* An ISO string is its wall-clock reading (seconds) and its zone suffix:  *)
(* "" (naive), "Z", "+00:00" or "+01:00".                                  *)

IsoString(w, tz) == [wall |-> w, tz |-> tz]

\* str.replace('Z', '+00:00'), main.py:113
ReplaceZ(s) == IF s.tz = "Z" THEN [s EXCEPT !.tz = "+00:00"] ELSE s

\* datetime.fromisoformat: a naive datetime when the string has no suffix,
\* otherwise an aware one carrying the suffix's offset (seconds here).
FromIsoFormat(s) ==
    [wall |-> s.wall,
     aware |-> s.tz # "",
     off |-> IF s.tz = "+01:00" THEN 1 ELSE 0]

\* datetime.timestamp() * 1000: POSIX milliseconds.  A naive datetime is read
\* in the machine's local zone, an aware one in its own.
TimestampMs(dt, loff) ==
    (dt.wall - (IF dt.aware THEN dt.off ELSE loff)) * 1000

----------------------------------------------------------------------------
(* URL extraction.  A text is the sequence of its whitespace-separated     *)
(* words; re.findall(r'https?://\S+', text) returns the words that are     *)
(* URLs, in order.                                                         *)

UrlValues == {"https://a", "http://b"}

FindAll(text) == SelectSeq(text, LAMBDA w : w \in UrlValues)

\* b.get('content', {}).get('url', '') + ' ' + (b.get('title') or ''), main.py:122
BookmarkText(b) == (IF b.url = "" THEN << >> ELSE << b.url >>) \o b.title

BookmarkValues ==
    { [createdAt |-> IsoString(w, tz), url |-> t.url, title |-> t.title] :
        w \in TimeValues, tz \in {"Z", "+01:00"},
        t \in { [url |-> "https://a", title |-> << "clip" >>],
                [url |-> "", title |-> << "see", "http://b" >>],
                [url |-> "https://a", title |-> << "https://a", "http://b" >>] } }

\* the condition of the comprehensions at main.py:113 and main.py:119
BookmarkKeptExclusiveEnd(b, s_ts, e_ts, loff) ==
    LET t == TimestampMs(FromIsoFormat(ReplaceZ(b.createdAt)), loff)
    IN  s_ts <= t /\ t < e_ts
BookmarkKept(b, s_ts, e_ts, loff) ==
    LET t == TimestampMs(FromIsoFormat(ReplaceZ(b.createdAt)), loff)
    IN  s_ts <= t /\ t <= e_ts

----------------------------------------------------------------------------
(* main.py:87-93: format the date, pick the dimensions, branch on          *)
(* --merge-only.                                                           *)

\* the branch at main.py:93 and main.py:237
Branch(mo) == IF ~mo THEN "fetch" ELSE "merge_load"

Start ==
    /\ pc = "start"
    /\ pc' = Branch(merge_only)
    /\ UNCHANGED << arg_vars, fetch_vars, error, video_metadata, url_idx, calls,
                    downloads, metadata_file, all_files, files, file_idx,
                    normalized, normalized_files, compilation_videos,
                    cumulative_timestamp, video_idx, total_duration_str,
                    filelist, run, yt_vars >>

----------------------------------------------------------------------------
(* main.py:93-124: compute the window, fetch the bookmarks, filter them    *)
(* and extract their URLs.                                                 *)

\* the comprehension at main.py:111-114
FilteredBookmarks(bookmarks, s_ts, e_ts, loff) ==
    SelectSeq(bookmarks, LAMBDA b : BookmarkKept(b, s_ts, e_ts, loff))

\* the comprehension at main.py:117-124
BookmarkUrls(bookmarks, s_ts, e_ts, loff) ==
    Flatten([i \in DOMAIN bookmarks |->
                IF BookmarkKept(bookmarks[i], s_ts, e_ts, loff)
                THEN FindAll(BookmarkText(bookmarks[i]))
                ELSE << >>])

FetchBookmarks ==
    /\ pc = "fetch"
    /\ \E bookmarks \in SeqsUpTo(BookmarkValues, MaxBookmarks) :
        LET s_ts == TimestampMs(FromIsoFormat(start_date), local_offset)
            e_ts == TimestampMs(FromIsoFormat(end_date), local_offset)
        IN  /\ start_ts' = s_ts
            /\ end_ts' = e_ts
            /\ response' = [bookmarks |-> bookmarks]
            /\ filtered_bookmarks' =
                   FilteredBookmarks(bookmarks, s_ts, e_ts, local_offset)
            /\ urls' = BookmarkUrls(bookmarks, s_ts, e_ts, local_offset)
    /\ compilation_dir' = [compilation_dir EXCEPT !.exists = TRUE]
    /\ pc' = "matrix"
    /\ UNCHANGED << arg_vars, matrix_urls, from_token, matrix_resp, requests,
                    error, video_metadata, url_idx, calls, downloads,
                    metadata_file, all_files, merge_vars, run, yt_rest >>

----------------------------------------------------------------------------
(* main.py:126-153: the backward walk over the chat room's history.        *)

\* Python truthiness of a cursor: None and '' are falsy.
Truthy(tok) == tok # None /\ tok # ""

CursorValues == {None, "", "t1"}

\* event.get('origin_server_ts', 0), main.py:146
OriginServerTs(event) == IF event.has_ts THEN event.origin_server_ts ELSE 0

\* The origin_server_ts values of the events, in seconds.
EventTimeValues == 1 .. 2

\* event.get('content', {}).get('body', ''), main.py:148
EventValues ==
    { [has_ts |-> FALSE, origin_server_ts |-> 0, body |-> << "look", "http://b" >>] }
    \cup { [has_ts |-> TRUE, origin_server_ts |-> t * 1000,
            body |-> << "look", "http://b" >>] : t \in EventTimeValues }

PageValues ==
    { [has_chunk |-> TRUE, chunk |-> c, end |-> e] :
        c \in SeqsUpTo(EventValues, MaxChunk), e \in CursorValues }
    \cup { [has_chunk |-> FALSE, chunk |-> << >>, end |-> e] : e \in CursorValues }

\* the condition at main.py:147
EventKept(event, s_ts, e_ts) ==
    s_ts <= OriginServerTs(event) /\ OriginServerTs(event) <= e_ts

\* the loop at main.py:145-149: what one page adds to matrix_urls
PageUrls(page, s_ts, e_ts) ==
    Flatten([i \in DOMAIN page.chunk |->
                IF EventKept(page.chunk[i], s_ts, e_ts)
                THEN FindAll(page.chunk[i].body)
                ELSE << >>])

\* matrix_resp.get('chunk', [{}]), main.py:152: a missing chunk is replaced by
\* a list holding one empty event.
ChunkOrDefault(page) ==
    IF page.has_chunk THEN page.chunk
    ELSE << [has_ts |-> FALSE, origin_server_ts |-> 0, body |-> << >>] >>

\* main.py:152, evaluated left to right: "break", "next" or the exception
\* raised by [-1] on an empty list.
CursorCheck(page, s_ts) ==
    IF ~Truthy(page.end) THEN "break"
    ELSE IF ChunkOrDefault(page) = << >> THEN "IndexError"
    ELSE IF OriginServerTs(ChunkOrDefault(page)[Len(ChunkOrDefault(page))]) < s_ts
         THEN "break"
         ELSE "next"

\* main.py:126-129
MatrixInit ==
    /\ pc = "matrix"
    /\ matrix_urls' = << >>
    /\ from_token' = IF matrix_token THEN None ELSE from_token
    /\ pc' = IF matrix_token THEN "matrix_loop" ELSE "dedup"
    /\ UNCHANGED << arg_vars, start_ts, end_ts, response, filtered_bookmarks,
                    urls, matrix_resp, requests,
                    error, video_metadata, url_idx, calls, downloads,
                    metadata_file, all_files, merge_vars, run, yt_vars >>

\* main.py:131-153: one iteration of the while loop.
MatrixPage ==
    /\ pc = "matrix_loop"
    /\ Len(requests) < MaxPages
    /\ \E page \in PageValues :
        /\ requests' = Append(requests, IF Truthy(from_token) THEN from_token ELSE None)
        /\ matrix_resp' = page
        /\ matrix_urls' = matrix_urls \o PageUrls(page, start_ts, end_ts)
        /\ from_token' = page.end
        /\ LET check == CursorCheck(page, start_ts)
           IN  /\ pc' = CASE check = "break" -> "dedup"
                          [] check = "next" -> "matrix_loop"
                          [] OTHER -> "crashed"
               /\ error' = IF check \in {"break", "next"} THEN error ELSE check
    /\ UNCHANGED << arg_vars, start_ts, end_ts, response, filtered_bookmarks,
                    urls, video_metadata, url_idx, calls, downloads,
                    metadata_file, all_files, merge_vars, run, yt_vars >>

----------------------------------------------------------------------------
(* Directory listings.  Names sort as Python sorts the Path objects.       *)

NormalizedDir == "normalized"

NameOrder == << "a.mkv", "a.webm", "b.mp4", "normalized" >>

FileNames == {"a.mkv", "a.webm", "b.mp4"}

\* sorted(Path(...).glob('*')), main.py:219 and main.py:239
SortedGlob(dir) == SelectSeq(NameOrder, LAMBDA n : n \in dir)

\* Path.is_file(), main.py:253
IsFile(name) == name # NormalizedDir

\* Path.stem, main.py:259 and main.py:316
Stem(name) ==
    CASE name \in {"a.mkv", "a.webm", "a.mp4"} -> "a"
      [] name \in {"b.mp4"} -> "b"
      [] OTHER -> name

Stems == {"a", "b"}

----------------------------------------------------------------------------
(* main.py:155-166: save the chat URLs, deduplicate, create the            *)
(* directories, start with an empty metadata dictionary.                   *)

\* list(set(urls + matrix_urls)), main.py:159: each element once, in the
\* iteration order of the set, which is not specified.
DedupConcatOnly(us, ms) == { us \o ms }
Dedup(us, ms) == Orderings(Range(us \o ms))

EmptyDict == [k \in {} |-> None]

Deduplicate ==
    /\ pc = "dedup"
    /\ urls' \in Dedup(urls, matrix_urls)
    /\ downloads' = downloads \cup {NormalizedDir}
    /\ video_metadata' = EmptyDict
    /\ url_idx' = 1
    /\ pc' = "download"
    /\ UNCHANGED << arg_vars, start_ts, end_ts, response, filtered_bookmarks,
                    matrix_urls, from_token, matrix_resp, requests, error,
                    calls, metadata_file, all_files, merge_vars, run, yt_vars >>

----------------------------------------------------------------------------
(* main.py:168-210: probe each URL with yt-dlp -j, download the short ones. *)

\* The 180-second ceiling of main.py:186 and main.py:231, in milliseconds.
MaxDurationMs == 180 * 1000

\* url.split('/')[-1], main.py:191
LastSegment(url) == IF url = "https://a" THEN "a" ELSE "b"

\* The page address yt-dlp reports for a URL.
WebpageUrl(url) == IF url = "https://a" THEN "https://www.a/watch"
                   ELSE "https://www.b/watch"

\* The 'title', 'webpage_url' and 'uploader' keys of a probe output; None
\* stands for a key that is not there.
ProbeExtras(url) ==
    { [title |-> "Title", webpage_url |-> WebpageUrl(url), uploader |-> "Alice"],
      [title |-> "Title", webpage_url |-> None, uploader |-> None],
      [title |-> None, webpage_url |-> None, uploader |-> None] }

\* What yt-dlp -j may print for a URL: text that json.loads rejects, or a JSON
\* object with or without 'duration', 'id', 'title', 'webpage_url', 'uploader'.
ProbeValues(url) ==
    { [parsed |-> FALSE, has_id |-> FALSE, id |-> None, has_duration |-> FALSE,
       duration |-> 0, title |-> None, webpage_url |-> None, uploader |-> None] }
    \cup { [parsed |-> TRUE, has_id |-> hi, id |-> IF hi THEN LastSegment(url) ELSE None,
            has_duration |-> d >= 0, duration |-> IF d >= 0 THEN d ELSE 0,
            title |-> x.title, webpage_url |-> x.webpage_url,
            uploader |-> x.uploader] :
            hi \in BOOLEAN, d \in {-1, MaxDurationMs, MaxDurationMs + 500,
                                   MaxDurationMs + 1000},
            x \in ProbeExtras(url) }

\* main.py:178-202: "download", or "skip" for each of the three continue paths.
ProbeDecisionNoCeiling(probe) ==
    IF ~probe.parsed THEN "skip"
    ELSE IF ~probe.has_duration THEN "skip"
    ELSE "download"
ProbeDecision(probe) ==
    IF ~probe.parsed THEN "skip"
    ELSE IF ~probe.has_duration THEN "skip"
    ELSE IF probe.duration > MaxDurationMs THEN "skip"
    ELSE "download"

\* metadata.get('id', url.split('/')[-1]), main.py:191
VideoId(probe, url) == IF probe.has_id THEN probe.id ELSE LastSegment(url)

\* main.py:192-197: metadata.get(key, default) for each stored key
MetadataRecord(probe, url) ==
    [title |-> IF probe.title = None THEN "Untitled" ELSE probe.title,
     url |-> IF probe.webpage_url = None THEN url ELSE probe.webpage_url,
     duration |-> probe.duration,
     uploader |-> IF probe.uploader = None THEN "Unknown" ELSE probe.uploader]

\* What the download writes into downloads/<date>: one file named after the
\* video id, or nothing when yt-dlp fails.
DownloadOutcomes(url) ==
    IF url = "https://a" THEN {None, "a.webm", "a.mkv"} ELSE {None, "b.mp4"}

Call(tool, arg, out) == [run |-> run, tool |-> tool, arg |-> arg, out |-> out]

\* main.py:169-210: one iteration of the loop over urls.
DownloadStep ==
    /\ pc = "download"
    /\ url_idx <= Len(urls)
    /\ LET url == urls[url_idx]
       IN  \E probe \in ProbeValues(url) :
            IF ProbeDecision(probe) = "skip"
            THEN /\ calls' = Append(calls, Call("yt-dlp -j", url, probe))
                 /\ UNCHANGED << video_metadata, downloads >>
            ELSE \E got \in DownloadOutcomes(url) :
                 /\ video_metadata' =
                        (VideoId(probe, url) :> MetadataRecord(probe, url))
                            @@ video_metadata
                 /\ calls' = calls \o << Call("yt-dlp -j", url, probe),
                                         Call("yt-dlp", url, [file |-> got]) >>
                 /\ downloads' = IF got = None THEN downloads
                                 ELSE downloads \cup {got}
    /\ url_idx' = url_idx + 1
    /\ UNCHANGED << pc, arg_vars, fetch_vars, error, metadata_file, all_files,
                    merge_vars, run, yt_vars >>

\* main.py:212-220: after the loop, write the metadata file and list the
\* download directory.
SaveMetadata ==
    /\ pc = "download"
    /\ url_idx > Len(urls)
    /\ metadata_file' = [exists |-> TRUE, content |-> video_metadata]
    /\ all_files' = SortedGlob(downloads)
    /\ files' = << >>
    /\ file_idx' = 1
    /\ compilation_dir' = [compilation_dir EXCEPT !.exists = TRUE]
    /\ pc' = "postcheck"
    /\ UNCHANGED << arg_vars, fetch_vars, error, video_metadata, url_idx, calls,
                    downloads, normalized, normalized_files, compilation_videos,
                    cumulative_timestamp, video_idx, total_duration_str,
                    filelist, run, yt_rest >>

\* What ffprobe prints for the duration of a path: nothing parsable for a
\* directory; for a file a number or text float() rejects.
FfprobeOutputs(name) ==
    { [parsable |-> FALSE, value |-> 0] }
    \cup (IF IsFile(name)
          THEN { [parsable |-> TRUE, value |-> d] :
                   d \in {MaxDurationMs - 500, MaxDurationMs,
                          MaxDurationMs + 500} }
          ELSE {})

\* main.py:229-236: "keep" or "delete"
PostCheckDecisionStrict(out) ==
    IF ~out.parsable THEN "keep"
    ELSE IF out.value < MaxDurationMs THEN "keep"
    ELSE "delete"
PostCheckDecision(out) ==
    IF ~out.parsable THEN "keep"
    ELSE IF out.value <= MaxDurationMs THEN "keep"
    ELSE "delete"

\* main.py:221-236: one iteration of the loop over all_files.
PostCheckStep ==
    /\ pc = "postcheck"
    /\ file_idx <= Len(all_files)
    /\ LET f == all_files[file_idx]
       IN  \E out \in FfprobeOutputs(f) :
            /\ calls' = Append(calls, Call("ffprobe", f, out))
            /\ IF PostCheckDecision(out) = "keep"
               THEN /\ files' = Append(files, f)
                    /\ UNCHANGED downloads
               ELSE /\ downloads' = downloads \ {f}
                    /\ UNCHANGED files
    /\ file_idx' = file_idx + 1
    /\ pc' = IF file_idx = Len(all_files) THEN "normalize_init" ELSE "postcheck"
    /\ UNCHANGED << arg_vars, fetch_vars, error, video_metadata, url_idx,
                    metadata_file, all_files, normalized, normalized_files,
                    compilation_videos, cumulative_timestamp, video_idx,
                    total_duration_str, filelist, run, yt_vars >>

----------------------------------------------------------------------------
(* main.py:237-247: --merge-only takes the files already on disk and the   *)
(* metadata file of the date, when there is one.                           *)

\* main.py:242-247
LoadMetadata(mf) == IF mf.exists THEN mf.content ELSE EmptyDict

MergeOnlyLoad ==
    /\ pc = "merge_load"
    /\ files' = SortedGlob(downloads)
    /\ filtered_bookmarks' = << >>
    /\ video_metadata' = LoadMetadata(metadata_file)
    /\ pc' = "normalize_init"
    /\ UNCHANGED << arg_vars, start_ts, end_ts, response, urls, matrix_urls,
                    from_token, matrix_resp, requests, error, url_idx, calls,
                    downloads, metadata_file, all_files, file_idx, normalized,
                    normalized_files, compilation_videos, cumulative_timestamp,
                    video_idx, total_duration_str, filelist, run, yt_vars >>

----------------------------------------------------------------------------
(* main.py:249-294: re-encode every file to normalized/<stem>.mp4 unless a *)
(* valid target is already there.                                          *)

\* Size of a file that does not exist.
Absent == -1

\* The minimum size of a valid normalized file, main.py:264 and main.py:293.
MinValidSize == 1024

SizeValues == {Absent, 0, MinValidSize, MinValidSize + 1}

\* Path(f'downloads/{date}/normalized/{f.stem}.mp4'), main.py:259
NormalizedPath(f) == Stem(f) \o ".mp4"

\* normalized_path.exists() and normalized_path.stat().st_size > 1024
ValidSize(size) == size # Absent /\ size > MinValidSize

\* What one ffmpeg run leaves behind: its exit code and the size of the target
\* it wrote (Absent when it wrote none).  A failed run may leave no target,
\* an undersized one or a partial one of any size.
EncodeOutcomes ==
    { [rc |-> 0, size |-> MinValidSize + 1],
      [rc |-> 0, size |-> MinValidSize],
      [rc |-> 1, size |-> Absent],
      [rc |-> 1, size |-> 0],
      [rc |-> 1, size |-> MinValidSize + 1] }

\* main.py:262-268: the size of the target after the check (an undersized
\* target is unlinked) and whether the encoder has to run.
NeedsNormalizationAlways(size) ==
    [needs |-> TRUE,
     size |-> IF size # Absent /\ ~ValidSize(size) THEN Absent ELSE size]
NeedsNormalization(size) ==
    [needs |-> ~ValidSize(size),
     size |-> IF size # Absent /\ ~ValidSize(size) THEN Absent ELSE size]

\* main.py:249-250
NormalizeInit ==
    /\ pc = "normalize_init"
    /\ normalized_files' = << >>
    /\ file_idx' = 1
    /\ pc' = "normalize"
    /\ UNCHANGED << arg_vars, fetch_vars, error, video_metadata, url_idx, calls,
                    downloads, metadata_file, all_files, files, normalized,
                    compilation_videos, cumulative_timestamp, video_idx,
                    total_duration_str, filelist, run, yt_vars >>

\* main.py:292-294: the list after the validity check of the target
AppendIfValidUnchecked(nfs, path, size) == Append(nfs, path)
AppendIfValid(nfs, path, size) ==
    IF ValidSize(size) THEN Append(nfs, path) ELSE nfs

\* main.py:251-294: one iteration of the loop over files.
NormalizeStep ==
    /\ pc = "normalize"
    /\ file_idx <= Len(files)
    /\ LET f == files[file_idx]
           stem == Stem(f)
           chk == NeedsNormalization(normalized[stem])
       IN  IF ~IsFile(f)
           THEN UNCHANGED << normalized, normalized_files, calls >>
           ELSE IF chk.needs
           THEN \E o \in EncodeOutcomes :
                LET size == IF o.size = Absent THEN chk.size ELSE o.size
                IN  /\ calls' = Append(calls, Call("ffmpeg", f, o))
                    /\ normalized' = [normalized EXCEPT ![stem] = size]
                    /\ normalized_files' =
                           AppendIfValid(normalized_files, NormalizedPath(f), size)
           ELSE /\ normalized' = [normalized EXCEPT ![stem] = chk.size]
                /\ normalized_files' =
                       AppendIfValid(normalized_files, NormalizedPath(f), chk.size)
                /\ UNCHANGED calls
    /\ file_idx' = file_idx + 1
    /\ UNCHANGED << pc, arg_vars, fetch_vars, error, video_metadata, url_idx,
                    downloads, metadata_file, all_files, files,
                    compilation_videos, cumulative_timestamp, video_idx,
                    total_duration_str, filelist, run, yt_vars >>

----------------------------------------------------------------------------
(* main.py:296-354: walk the normalized files, probe each duration and     *)
(* accumulate the start offsets of the report rows.                        *)

\* f"{n:02d}": at least two digits
Pad2(n) == IF n < 10 THEN "0" \o ToString(n) ELSE ToString(n)

\* Python floats.  A duration ffprobe printed is the decimal ms / 1000 and
\* float() gives the double nearest to it.  A running total is a double too:
\* ms is the exact sum of the decimals added, in milliseconds; exact says the
\* double is exactly ms / 1000; near says it is the double nearest to
\* ms / 1000; short says ms / 1000 is a whole number and the double lies
\* below it (4.999999999999999 for 5).  A double is never further than a few
\* units in the last place from the exact sum.
Dyadic(ms) == ms % 125 = 0

\* float(text): multiples of 1/8 second have a short binary expansion
Float(ms) == [ms |-> ms, exact |-> Dyadic(ms), near |-> TRUE, short |-> FALSE]

\* int(x), main.py:342, of a non-negative float
WholeSeconds(x) == IF x.short THEN x.ms \div 1000 - 1 ELSE x.ms \div 1000

\* main.py:326-329 and main.py:351-354: HH:MM:SS of a float number of seconds
FormatHMS(x) ==
    LET secs == WholeSeconds(x)
    IN  Pad2(secs \div 3600) \o ":" \o Pad2((secs % 3600) \div 60)
            \o ":" \o Pad2(secs % 60)

\* main.py:332-334: MM:SS of a duration in milliseconds
FormatMS(ms) ==
    LET secs == WholeSeconds(Float(ms))
    IN  Pad2(secs \div 60) \o ":" \o Pad2(secs % 60)

\* main.py:310-313: float(result.stdout.strip()), 0.0 when it raises
ParseDuration(out) == IF out.parsable THEN out.value ELSE 0

\* What ffprobe prints for a normalized file.
NormalizedProbeOutputs ==
    { [parsable |-> FALSE, value |-> 0] }
    \cup { [parsable |-> TRUE, value |-> d] :
             d \in {30000, 45000, 12000, 4300, 29400} }

\* main.py:319-323: video_metadata.get(video_id, {...})
MetadataFor(md, video_id) ==
    IF video_id \in DOMAIN md
    THEN md[video_id]
    ELSE [title |-> video_id, url |-> "https://unknown/" \o video_id,
          uploader |-> "Unknown"]

\* main.py:348, cumulative_timestamp += duration: the doubles the float
\* addition may give.  Adding 0.0, adding to 0.0 and adding exact values
\* whose sum is exact give one double.  Two doubles nearest to decimals of
\* at most 181 seconds whose exact sum is a whole number add up to that
\* number (4.3 + 0.7 is 5.0).  Any other sum is rounded: when the exact sum
\* is a whole number of seconds reached from a rounded total that was not
\* one, or was short of one, the double may fall short of it (0.1 + 4.3 +
\* 0.6 is 4.999999999999999, 4.3 + 29.4 + 4.3 is 37.99999999999999).
AccumulateFromZero(total, duration) == { Float(duration) }
Accumulate(total, duration) ==
    LET ms == total.ms + duration
    IN  IF duration = 0 THEN { total }
        ELSE IF total = Float(0) THEN { Float(duration) }
        ELSE IF total.exact /\ Dyadic(duration)
             THEN { [ms |-> ms, exact |-> TRUE, near |-> TRUE, short |-> FALSE] }
        ELSE IF ms % 1000 = 0 /\ total.near
             THEN { [ms |-> ms, exact |-> TRUE, near |-> TRUE, short |-> FALSE] }
        ELSE IF ms % 1000 = 0 /\ (total.short \/ total.ms % 1000 # 0)
             THEN { [ms |-> ms, exact |-> FALSE, near |-> FALSE, short |-> sh] :
                      sh \in BOOLEAN }
             ELSE { [ms |-> ms, exact |-> FALSE, near |-> FALSE, short |-> FALSE] }

\* main.py:296-298
ReportInit ==
    /\ pc = "normalize"
    /\ file_idx > Len(files)
    /\ compilation_videos' = << >>
    /\ cumulative_timestamp' = Float(0)
    /\ video_idx' = 1
    /\ pc' = "timestamps"
    /\ UNCHANGED << arg_vars, fetch_vars, error, video_metadata, url_idx, calls,
                    downloads, metadata_file, all_files, files, file_idx,
                    normalized, normalized_files, total_duration_str, filelist,
                    run, yt_vars >>

\* main.py:300-348: one iteration of the loop over normalized_files.
TimestampStep ==
    /\ pc = "timestamps"
    /\ video_idx <= Len(normalized_files)
    /\ LET video == normalized_files[video_idx]
           video_id == Stem(video)
           metadata == MetadataFor(video_metadata, video_id)
       IN  \E out \in NormalizedProbeOutputs :
            LET duration == ParseDuration(out)
            IN  /\ calls' = Append(calls, Call("ffprobe", video, out))
                /\ compilation_videos' =
                       Append(compilation_videos,
                              [index |-> Len(compilation_videos) + 1,
                               title |-> metadata.title,
                               url |-> metadata.url,
                               uploader |-> metadata.uploader,
                               timestamp |-> FormatHMS(cumulative_timestamp),
                               timestamp_seconds |-> WholeSeconds(cumulative_timestamp),
                               duration |-> FormatMS(duration),
                               duration_seconds |-> duration,
                               video_id |-> video_id])
                /\ cumulative_timestamp' \in Accumulate(cumulative_timestamp, duration)
    /\ video_idx' = video_idx + 1
    /\ UNCHANGED << pc, arg_vars, fetch_vars, error, video_metadata, url_idx,
                    downloads, metadata_file, all_files, files, file_idx,
                    normalized, normalized_files, total_duration_str, filelist,
                    run, yt_vars >>

\* datetime.fromisoformat(args.end_date).strftime('%Y_%m_%d'), main.py:88.
\* Every date of the model's time axis is a second of 1970-01-01.
FormattedEndDate(date) == "1970_01_01"

\* compilation/<date>.mp4, main.py:375
CompilationFile(date) == FormattedEndDate(date) \o ".mp4"

\* What the concat run does: its exit code and whether it wrote the output.
ConcatOutcomes == [rc : {0, 1}, written : BOOLEAN]

\* The mtime of a file written now.  Only the order of the mtimes is read
\* (youtube.py:104): the file becomes later than every other file of the
\* directory.
NewMtime(videos, name) ==
    LET others == DOMAIN videos \ {name}
    IN  IF others = {} THEN 1
        ELSE 1 + CHOOSE t \in { videos[n] : n \in others } :
                     \A m \in others : videos[m] <= t

\* main.py:350-388: the total, the concat file list, the concat run and the
\* report.  The file list is written into compilation/ at main.py:357, before
\* the mkdir of main.py:363: write_text raises FileNotFoundError when the
\* directory is not there.  The exit code of the concat run is not looked at.
\* The template is read at main.py:379, after the concat: read_text raises
\* FileNotFoundError when the working directory has no template.
Compile ==
    /\ pc = "timestamps"
    /\ video_idx > Len(normalized_files)
    /\ total_duration_str' = FormatHMS(cumulative_timestamp)
    /\ IF ~compilation_dir.exists
       THEN /\ pc' = "crashed"
            /\ error' = "FileNotFoundError"
            /\ UNCHANGED << filelist, calls, compilation_dir >>
       ELSE \E o \in ConcatOutcomes :
            /\ filelist' = normalized_files
            /\ calls' = Append(calls, Call("ffmpeg concat", "filelist.txt",
                                           [rc |-> o.rc]))
            /\ compilation_dir' =
                   IF o.written
                   THEN [compilation_dir EXCEPT !.videos =
                            (CompilationFile(end_date)
                                :> NewMtime(compilation_dir.videos,
                                            CompilationFile(end_date))) @@ @]
                   ELSE compilation_dir
            /\ IF template_file
               THEN pc' = "done" /\ UNCHANGED error
               ELSE pc' = "crashed" /\ error' = "FileNotFoundError"
    /\ UNCHANGED << arg_vars, fetch_vars, video_metadata, url_idx,
                    downloads, metadata_file, all_files, files, file_idx,
                    normalized, normalized_files, compilation_videos,
                    cumulative_timestamp, video_idx, run, yt_rest >>

----------------------------------------------------------------------------
(* A further invocation of main.py with the same arguments: the script's   *)
(* variables start afresh, the files on disk stay.  Of the invocation just *)
(* ended calls keeps the encoder runs.                                     *)

MaxRuns == 2

Rerun ==
    /\ pc = "done"
    /\ run < MaxRuns
    /\ run' = run + 1
    /\ pc' = "start"
    /\ start_ts' = 0
    /\ end_ts' = 0
    /\ response' = NoResponse
    /\ filtered_bookmarks' = << >>
    /\ urls' = << >>
    /\ matrix_urls' = << >>
    /\ from_token' = None
    /\ matrix_resp' = NoPage
    /\ requests' = << >>
    /\ video_metadata' = EmptyDict
    /\ url_idx' = 1
    /\ all_files' = << >>
    /\ files' = << >>
    /\ file_idx' = 1
    /\ normalized_files' = << >>
    /\ compilation_videos' = << >>
    /\ cumulative_timestamp' = Float(0)
    /\ video_idx' = 1
    /\ total_duration_str' = ""
    /\ calls' = SelectSeq(calls, LAMBDA c : c.tool = "ffmpeg" /\ c.run = run)
    /\ UNCHANGED << arg_vars, error, downloads, metadata_file, normalized,
                    filelist, yt_vars >>

----------------------------------------------------------------------------
(* youtube.py:54-99: load the cached credential, refresh it or run the     *)
(* interactive flow, persist the result, build the upload service.         *)

\* A google.oauth2 credential: whether it holds an access token, whether the
\* token is past its expiry, whether it holds a refresh token.
Credential(tok, exp, ref) ==
    [present |-> TRUE, token |-> tok, expired |-> exp, refresh_token |-> ref]

\* creds = None, youtube.py:56
NoCreds == [present |-> FALSE, token |-> FALSE, expired |-> FALSE,
            refresh_token |-> FALSE]

CredentialValues ==
    { Credential(t, e, r) : t \in BOOLEAN, e \in BOOLEAN, r \in BOOLEAN }

\* Credentials.valid: a token that is not expired
Valid(c) == c.token /\ ~c.expired

NoService == [built |-> FALSE, credentials |-> NoCreds]

\* youtube.py:65-95: which branch the authentication takes
AuthPathFlowWhenExpired(c) ==
    IF ~c.present \/ ~Valid(c) THEN "flow" ELSE "cached"
AuthPath(c) ==
    IF ~c.present \/ ~Valid(c)
    THEN IF c.present /\ c.expired /\ c.refresh_token THEN "refresh" ELSE "flow"
    ELSE "cached"

\* youtube.py:54-62
LoadCredentials ==
    /\ yt_pc = "load"
    /\ creds' = IF token_file.exists THEN token_file.content ELSE NoCreds
    /\ yt_pc' = "auth"
    /\ UNCHANGED << main_vars, token_file, initial_token, auth_log, youtube,
                    compilation_dir, video_file >>

\* youtube.py:64-95.  creds.refresh and flow.run_local_server either return
\* or raise; an exception is not caught and ends the script.
Authenticate ==
    /\ yt_pc = "auth"
    /\ LET path == AuthPath(creds)
       IN  CASE path = "refresh" ->
                 \E ok \in BOOLEAN :
                    IF ok
                    THEN /\ creds' = Credential(TRUE, FALSE, TRUE)
                         /\ token_file' = [exists |-> TRUE, content |-> creds']
                         /\ auth_log' = auth_log \o << "refresh", "write" >>
                         /\ yt_pc' = "build"
                    ELSE /\ auth_log' = Append(auth_log, "refresh")
                         /\ yt_pc' = "crashed"
                         /\ UNCHANGED << creds, token_file >>
             [] path = "flow" ->
                 \E ok \in BOOLEAN, ref \in BOOLEAN :
                    IF ok
                    THEN /\ creds' = Credential(TRUE, FALSE, ref)
                         /\ token_file' = [exists |-> TRUE, content |-> creds']
                         /\ auth_log' = auth_log \o << "flow", "write" >>
                         /\ yt_pc' = "build"
                    ELSE /\ auth_log' = Append(auth_log, "flow")
                         /\ yt_pc' = "crashed"
                         /\ UNCHANGED << creds, token_file >>
             [] OTHER ->
                 /\ yt_pc' = "build"
                 /\ UNCHANGED << creds, token_file, auth_log >>
    /\ UNCHANGED << main_vars, initial_token, youtube, compilation_dir,
                    video_file >>

\* youtube.py:97-100
BuildService ==
    /\ yt_pc = "build"
    /\ youtube' = [built |-> TRUE, credentials |-> creds]
    /\ yt_pc' = "find"
    /\ UNCHANGED << main_vars, token_file, initial_token, creds, auth_log,
                    compilation_dir, video_file >>

\* The dated compilation videos that may lie in compilation/.
CompilationNames == {"2025_01_01.mp4", "2025_01_08.mp4"}

\* max(Path('compilation').glob('*.mp4'), key=mtime), youtube.py:104: a file
\* of the greatest mtime; the first one met when several share it.
LatestVideos(dir) ==
    { n \in DOMAIN dir.videos :
        \A m \in DOMAIN dir.videos : dir.videos[m] <= dir.videos[n] }

\* youtube.py:102-106.  max() of an empty sequence raises; the glob of a
\* directory that does not exist is empty.
FindLatestVideo ==
    /\ yt_pc = "find"
    /\ IF DOMAIN compilation_dir.videos = {}
       THEN /\ yt_pc' = "crashed"
            /\ UNCHANGED video_file
       ELSE /\ video_file' \in LatestVideos(compilation_dir)
            /\ yt_pc' = "upload"
    /\ UNCHANGED << main_vars, token_file, initial_token, creds, auth_log,
                    youtube, compilation_dir >>

\* youtube.py:108-140: read the description, upload.  The request either
\* returns the video id or raises.
Upload ==
    /\ yt_pc = "upload"
    /\ yt_pc' \in {"done", "crashed"}
    /\ UNCHANGED << main_vars, token_file, initial_token, creds, auth_log,
                    youtube, compilation_dir, video_file >>

----------------------------------------------------------------------------
(* Initial states.                                                         *)

ArgsInit ==
    /\ template_file \in BOOLEAN
    /\ start_date = IsoString(1, "")
    /\ end_date \in {IsoString(1, ""), IsoString(2, "")}
    /\ local_offset \in {0, 1}

FetchIdle ==
    /\ start_ts = 0
    /\ end_ts = 0
    /\ response = NoResponse
    /\ filtered_bookmarks = << >>
    /\ urls = << >>
    /\ matrix_urls = << >>
    /\ from_token = None
    /\ matrix_resp = NoPage
    /\ requests = << >>

DownloadIdle ==
    /\ video_metadata = EmptyDict
    /\ url_idx = 1
    /\ all_files = << >>

MergeIdle ==
    /\ files = << >>
    /\ file_idx = 1
    /\ normalized_files = << >>
    /\ compilation_videos = << >>
    /\ cumulative_timestamp = Float(0)
    /\ video_idx = 1
    /\ total_duration_str = ""
    /\ filelist = << >>

YoutubeIdle ==
    /\ yt_pc = "idle"
    /\ token_file = [exists |-> FALSE, content |-> NoCreds]
    /\ initial_token = token_file
    /\ creds = NoCreds
    /\ auth_log = << >>
    /\ youtube = NoService
    /\ video_file = None

NoMetadataFile == [exists |-> FALSE, content |-> EmptyDict]

\* compilation/ does not exist
NoCompilationDir == [exists |-> FALSE, videos |-> EmptyDict]

\* compilation/ exists and holds no video
EmptyCompilationDir == [exists |-> TRUE, videos |-> EmptyDict]

StoredMetadata ==
    ("a" :> [title |-> "Title", url |-> "https://www.a/watch",
             duration |-> 30000, uploader |-> "Alice"])

\* main.py started without --merge-only in a working directory without
\* compilation/ and downloads/, with or without the report template, no chat
\* token in the environment.
InitFetch ==
    /\ pc = "start"
    /\ merge_only = FALSE
    /\ ArgsInit
    /\ matrix_token = FALSE
    /\ FetchIdle /\ DownloadIdle /\ MergeIdle /\ YoutubeIdle
    /\ error = "none"
    /\ calls = << >>
    /\ downloads = {}
    /\ metadata_file = NoMetadataFile
    /\ compilation_dir = NoCompilationDir
    /\ normalized = [s \in Stems |-> Absent]
    /\ run = 1

\* Karakeep responses of the runs followed from main.py:126 and main.py:168
\* on: no bookmark; one bookmark created at 2 s; one at 1 s; both; one at 2 s
\* and one at 3 s.
StageResponses ==
    LET clip(t) == [createdAt |-> IsoString(t, "Z"), url |-> "https://a",
                    title |-> << "clip" >>]
        see(t) == [createdAt |-> IsoString(t, "Z"), url |-> "",
                   title |-> << "see", "http://b" >>]
    IN  { << >>, << clip(2) >>, << see(1) >>, << see(1), clip(2) >>,
          << clip(2), see(3) >> }

\* main.py at main.py:126, with a chat token in the environment: the state
\* FetchBookmarks leaves for a response of StageResponses.
InitMatrix ==
    /\ pc = "matrix"
    /\ merge_only = FALSE
    /\ template_file \in BOOLEAN
    /\ start_date = IsoString(1, "")
    /\ end_date = IsoString(2, "")
    /\ local_offset \in {0, 1}
    /\ matrix_token = TRUE
    /\ start_ts = TimestampMs(FromIsoFormat(start_date), local_offset)
    /\ end_ts = TimestampMs(FromIsoFormat(end_date), local_offset)
    /\ \E bookmarks \in StageResponses :
        /\ response = [bookmarks |-> bookmarks]
        /\ filtered_bookmarks =
               FilteredBookmarks(bookmarks, start_ts, end_ts, local_offset)
        /\ urls = BookmarkUrls(bookmarks, start_ts, end_ts, local_offset)
    /\ matrix_urls = << >>
    /\ from_token = None
    /\ matrix_resp = NoPage
    /\ requests = << >>
    /\ DownloadIdle /\ MergeIdle /\ YoutubeIdle
    /\ error = "none"
    /\ calls = << >>
    /\ downloads = {}
    /\ metadata_file = NoMetadataFile
    /\ compilation_dir = EmptyCompilationDir
    /\ normalized = [s \in Stems |-> Absent]
    /\ run = 1

\* main.py at main.py:168, no chat token in the environment: the state
\* Deduplicate leaves for a response of StageResponses.  The dated directory
\* may hold a file, and compilation/ the metadata file, of an earlier run.
InitDownload ==
    /\ pc = "download"
    /\ merge_only = FALSE
    /\ template_file \in BOOLEAN
    /\ start_date = IsoString(1, "")
    /\ end_date = IsoString(2, "")
    /\ local_offset = 0
    /\ matrix_token = FALSE
    /\ start_ts = TimestampMs(FromIsoFormat(start_date), local_offset)
    /\ end_ts = TimestampMs(FromIsoFormat(end_date), local_offset)
    /\ \E bookmarks \in StageResponses :
        /\ response = [bookmarks |-> bookmarks]
        /\ filtered_bookmarks =
               FilteredBookmarks(bookmarks, start_ts, end_ts, local_offset)
        /\ urls \in Dedup(BookmarkUrls(bookmarks, start_ts, end_ts, local_offset),
                          << >>)
    /\ matrix_urls = << >>
    /\ from_token = None
    /\ matrix_resp = NoPage
    /\ requests = << >>
    /\ DownloadIdle /\ MergeIdle /\ YoutubeIdle
    /\ error = "none"
    /\ calls = << >>
    /\ downloads \in { {NormalizedDir}, {NormalizedDir, "b.mp4"},
                        {NormalizedDir, "a.mkv"} }
    /\ metadata_file \in { NoMetadataFile,
                           [exists |-> TRUE, content |-> StoredMetadata] }
    /\ compilation_dir = EmptyCompilationDir
    /\ normalized = [s \in Stems |-> Absent]
    /\ run = 1

\* main.py started with --merge-only on the files of earlier runs.  The
\* metadata file lies in compilation/.  The target of stem a is in any
\* condition, the one of stem b absent or valid.
InitMerge ==
    /\ pc = "start"
    /\ merge_only = TRUE
    /\ template_file \in BOOLEAN
    /\ start_date = IsoString(1, "")
    /\ end_date = IsoString(2, "")
    /\ local_offset = 0
    /\ matrix_token = FALSE
    /\ FetchIdle /\ DownloadIdle /\ MergeIdle /\ YoutubeIdle
    /\ error = "none"
    /\ calls = << >>
    /\ downloads \in { {NormalizedDir} \cup S : S \in SUBSET FileNames }
    /\ compilation_dir \in { NoCompilationDir, EmptyCompilationDir }
    /\ metadata_file \in
          { NoMetadataFile }
          \cup (IF compilation_dir.exists
                THEN { [exists |-> TRUE, content |-> StoredMetadata] }
                ELSE {})
    /\ normalized \in { n \in [Stems -> SizeValues] :
                           n["b"] \in {Absent, MinValidSize + 1} }
    /\ run = 1

\* youtube.py started; main.py is not running.
InitYoutube ==
    /\ pc = "idle"
    /\ merge_only = FALSE
    /\ template_file = TRUE
    /\ start_date = IsoString(1, "")
    /\ end_date = IsoString(2, "")
    /\ local_offset = 0
    /\ matrix_token = FALSE
    /\ FetchIdle /\ DownloadIdle /\ MergeIdle
    /\ error = "none"
    /\ calls = << >>
    /\ downloads = {}
    /\ metadata_file = NoMetadataFile
    /\ normalized = [s \in Stems |-> Absent]
    /\ run = 1
    /\ yt_pc = "load"
    /\ token_file \in { [exists |-> FALSE, content |-> NoCreds] }
                      \cup { [exists |-> TRUE, content |-> c] : c \in CredentialValues }
    /\ initial_token = token_file
    /\ creds = NoCreds
    /\ auth_log = << >>
    /\ youtube = NoService
    /\ compilation_dir \in
          { NoCompilationDir }
          \cup { [exists |-> TRUE, videos |-> v] :
                   v \in UNION { [S -> {1, 2}] : S \in SUBSET CompilationNames } }
    /\ video_file = None

Init == InitFetch \/ InitMerge

----------------------------------------------------------------------------
(* Specifications: the stages of main.py, and youtube.py.                  *)

NextFetch == Start \/ FetchBookmarks \/ MatrixInit \/ MatrixPage \/ Deduplicate

NextDownload == DownloadStep \/ SaveMetadata \/ PostCheckStep

NextMerge ==
    Start \/ MergeOnlyLoad \/ NormalizeInit \/ NormalizeStep \/ ReportInit
        \/ TimestampStep \/ Compile \/ Rerun

NextYoutube ==
    LoadCredentials \/ Authenticate \/ BuildService \/ FindLatestVideo \/ Upload

Next == NextFetch \/ NextDownload \/ NextMerge

SpecFetch == (InitFetch \/ InitMatrix) /\ [][NextFetch]_vars

SpecDownload == InitDownload /\ [][NextDownload]_vars

SpecMerge == InitMerge /\ [][NextMerge]_vars

SpecYoutube == InitYoutube /\ [][NextYoutube]_vars

Spec == Init /\ [][Next]_vars

----------------------------------------------------------------------------
(* Claims.                                                                 *)

\* The invocations appended to calls by the step being taken.
NewCalls == SubSeq(calls', Len(calls) + 1, Len(calls'))

\* The encoder runs of invocation r of main.py.
EncoderCalls(r) == SelectSeq(calls, LAMBDA c : c.tool = "ffmpeg" /\ c.run = r)

\* The step being taken is an iteration of the normalization loop on a file.
NormalizingFile ==
    /\ pc = "normalize"
    /\ file_idx <= Len(files)
    /\ file_idx' = file_idx + 1
    /\ IsFile(files[file_idx])

\* C1, per file: a target of more than 1024 bytes means no encoder run and an
\* untouched target; a target of at most 1024 bytes is deleted and the encoder
\* runs exactly once on the file (afterwards the target is what that run
\* wrote, and absent when it wrote nothing); a missing target means exactly
\* one encoder run on the file.
C1_PerFile ==
    NormalizingFile =>
        LET f == files[file_idx]
            before == normalized[Stem(f)]
            once == /\ Len(NewCalls) = 1
                    /\ NewCalls[1].tool = "ffmpeg"
                    /\ NewCalls[1].arg = f
        IN  /\ (before # Absent /\ before > 1024) =>
                   (NewCalls = << >> /\ normalized' = normalized)
            /\ (before # Absent /\ before <= 1024) =>
                   (once /\ normalized'[Stem(f)] = NewCalls[1].out.size)
            /\ (before = Absent) => once

\* C1, second run: when every encoder run of an invocation left a target of
\* more than 1024 bytes, the next invocation over the same files runs the
\* encoder zero times.
C1_SecondRun ==
    (run >= 2 /\ \A i \in DOMAIN EncoderCalls(run - 1) :
                    /\ EncoderCalls(run - 1)[i].out.size # Absent
                    /\ EncoderCalls(run - 1)[i].out.size > 1024)
        => EncoderCalls(run) = << >>

\* C1: idempotent normalization (both parts above).
C1_IdempotentNormalization == [][C1_PerFile]_vars /\ []C1_SecondRun

\* C1 witness: a second invocation has gone through its normalization loop
\* without an encoder run, after a first one that encoded at least two files.
C1_Witness ==
    /\ run = 2
    /\ pc = "done"
    /\ Len(EncoderCalls(1)) >= 2
    /\ \A i \in DOMAIN EncoderCalls(1) : EncoderCalls(1)[i].out.size > 1024
    /\ EncoderCalls(2) = << >>
    /\ Len(normalized_files) >= 2

RECURSIVE SumDurations(_)
\* The sum of the duration_seconds of a sequence of report rows, milliseconds.
SumDurations(rows) ==
    IF rows = << >> THEN 0
    ELSE rows[1].duration_seconds + SumDurations(Tail(rows))

Rows(n) == SubSeq(compilation_videos, 1, n)

\* C2 as stated: every row's start offset equals the sum of the probed
\* durations of the rows before it, so offset[i+1] = offset[i] + duration[i].
C2_OffsetIsExactSum ==
    \A i \in DOMAIN compilation_videos :
        /\ compilation_videos[i].timestamp_seconds * 1000 = SumDurations(Rows(i - 1))
        /\ i > 1 =>
              compilation_videos[i].timestamp_seconds * 1000 =
                  compilation_videos[i - 1].timestamp_seconds * 1000
                      + compilation_videos[i - 1].duration_seconds

\* The durations of the first n rows are whole seconds.
WholeDurations(n) ==
    \A j \in 1 .. n : compilation_videos[j].duration_seconds % 1000 = 0

\* n is the integer part of a float total whose exact value is ms
\* milliseconds: ms cut to whole seconds, or one second less when ms is a
\* whole number of seconds that the rounding of the additions fell short of.
CutToSeconds(n, ms) ==
    \/ n = ms \div 1000
    \/ ms % 1000 = 0 /\ n = ms \div 1000 - 1

\* C2, amended: every row's start offset is the integer part of the float
\* running total of the probed durations of the rows before it: their sum cut
\* to whole seconds, or one second less when the sum is a whole number of
\* seconds that float rounding fell short of; it is exactly the sum when those
\* durations are whole seconds.  The reported total is cut from the sum of
\* all rows' durations in the same way.  Offsets never decrease; for
\* durations 30, 45, 12 the offsets are 00:00:00, 00:00:30, 00:01:15 and the
\* total is 00:01:27.
C2_TimestampAccumulation ==
    /\ \A i \in DOMAIN compilation_videos :
        LET row == compilation_videos[i]
            before == SumDurations(Rows(i - 1))
        IN  /\ CutToSeconds(row.timestamp_seconds, before)
            /\ row.timestamp = FormatHMS(Float(row.timestamp_seconds * 1000))
            /\ WholeDurations(i - 1) => row.timestamp_seconds * 1000 = before
            /\ i > 1 => compilation_videos[i - 1].timestamp_seconds
                            <= row.timestamp_seconds
    /\ pc \in {"timestamps", "done"} =>
           cumulative_timestamp.ms = SumDurations(compilation_videos)
    /\ pc = "done" =>
           /\ LET sum == SumDurations(compilation_videos)
                  n == IF cumulative_timestamp.short
                       THEN sum \div 1000 - 1 ELSE sum \div 1000
              IN  /\ CutToSeconds(n, sum)
                  /\ total_duration_str = FormatHMS(Float(n * 1000))
           /\ WholeDurations(Len(compilation_videos)) =>
                 total_duration_str =
                     FormatHMS(Float(SumDurations(compilation_videos)))
    /\ (pc = "done"
          /\ [i \in DOMAIN compilation_videos |->
                 compilation_videos[i].duration_seconds] = << 30000, 45000, 12000 >>)
        => /\ [i \in DOMAIN compilation_videos |-> compilation_videos[i].timestamp]
                  = << "00:00:00", "00:00:30", "00:01:15" >>
           /\ total_duration_str = "00:01:27"
    /\ (pc = "done" /\ compilation_videos = << >>) => total_duration_str = "00:00:00"

\* C2 witness: the report of three files of 30, 45 and 12 seconds is done.
C2_Witness ==
    /\ pc = "done"
    /\ [i \in DOMAIN compilation_videos |->
           compilation_videos[i].duration_seconds] = << 30000, 45000, 12000 >>
    /\ compilation_videos[3].timestamp_seconds = 75

\* The rows of a --merge-only run: without a metadata file the metadata map
\* is empty and every row has the stem as title, https://unknown/<stem> as
\* url and uploader Unknown; with a metadata file, a row whose id is stored
\* in it has the stored title.
MergeOnlyRows ==
    pc \in {"normalize_init", "normalize", "timestamps", "done", "crashed"} =>
        /\ ~metadata_file.exists => video_metadata = EmptyDict
        /\ \A i \in DOMAIN compilation_videos :
            LET row == compilation_videos[i]
                stem == Stem(normalized_files[i])
            IN  /\ row.video_id = stem
                /\ ~metadata_file.exists =>
                      /\ row.title = stem
                      /\ row.url = "https://unknown/" \o stem
                      /\ row.uploader = "Unknown"
                /\ (metadata_file.exists /\ stem \in DOMAIN metadata_file.content)
                      => row.title = metadata_file.content[stem].title

\* A --merge-only run never reaches the fetch, probe or download code.
MergeOnlySkipsFetch ==
    /\ pc \notin {"fetch", "matrix", "matrix_loop", "dedup", "download",
                  "postcheck"}
    /\ requests = << >>
    /\ response = NoResponse
    /\ \A i \in DOMAIN calls : calls[i].tool \notin {"yt-dlp -j", "yt-dlp"}

\* C7 as stated: a --merge-only run does no fetch, probe or download; without
\* a metadata file it does not fail and its report rows are named after the
\* stems; with a metadata file the stored titles are used.
C7_MergeOnlyFallback ==
    merge_only =>
        /\ MergeOnlySkipsFetch
        /\ MergeOnlyRows
        /\ ~metadata_file.exists => (pc # "crashed" /\ error = "none")

\* What holds of C7: all of it when compilation/ and the report template
\* exist at the start of the run (the run creates and removes neither before
\* main.py:357 and main.py:379).
C7_WithCompilationDir ==
    (merge_only /\ compilation_dir.exists /\ template_file) =>
        /\ MergeOnlySkipsFetch
        /\ MergeOnlyRows
        /\ pc # "crashed" /\ error = "none"

\* The step being taken is an encoder run that failed and left no target or
\* an undersized one.
FailedEncode ==
    /\ NormalizingFile
    /\ Len(NewCalls) = 1
    /\ NewCalls[1].out.rc # 0
    /\ (NewCalls[1].out.size = Absent \/ NewCalls[1].out.size <= 1024)

\* C9, the list: once the normalization loop is over, every path in
\* normalized_files, and so in the concat file list, is a target that exists
\* with more than 1024 bytes, and every entry of files has been gone through.
C9_ListIsValid ==
    /\ \A i \in DOMAIN normalized_files :
          /\ normalized[Stem(normalized_files[i])] # Absent
          /\ normalized[Stem(normalized_files[i])] > 1024
    /\ pc \in {"timestamps", "done"} => file_idx = Len(files) + 1
    /\ pc = "done" => filelist = normalized_files
    /\ Len(compilation_videos) <= Len(normalized_files)
    /\ pc = "done" => Len(compilation_videos) = Len(normalized_files)

\* C9, the failure: a failed encoder run adds no entry and the loop goes on.
C9_FailureAddsNothing ==
    FailedEncode =>
        /\ normalized_files' = normalized_files
        /\ pc' = "normalize"
        /\ error' = error

\* C9: failed encodes are excluded (both parts above).
C9_FailedEncodesExcluded == []C9_ListIsValid /\ [][C9_FailureAddsNothing]_vars

\* C9 witness: a run is done in which one file's encoder run failed leaving
\* nothing and another file made it into the compilation.
C9_Witness ==
    /\ pc = "done"
    /\ \E i \in DOMAIN EncoderCalls(run) :
          /\ EncoderCalls(run)[i].out.rc # 0
          /\ EncoderCalls(run)[i].out.size = Absent
          /\ normalized[Stem(EncoderCalls(run)[i].arg)] = Absent
    /\ Len(normalized_files) >= 1
    /\ Len(files) >= 3

\* The calls of one tool on one argument.
CallsOf(tool, arg) == SelectSeq(calls, LAMBDA c : c.tool = tool /\ c.arg = arg)

\* The probe printed a duration and it is at most 180 seconds.
ShortEnough(probe) ==
    probe.parsed /\ probe.has_duration /\ probe.duration <= 180 * 1000

\* C3: every URL the loop has gone through was probed once, and it was
\* downloaded, and its metadata stored under its video id, exactly when the
\* probe gave a duration of at most 180 seconds; URLs not yet reached have no
\* call; the loop reaches every URL whatever the earlier probes gave.
C3_DurationGatedDownload ==
    /\ \A i \in DOMAIN urls :
        LET url == urls[i]
            probes == CallsOf("yt-dlp -j", url)
            fetched == CallsOf("yt-dlp", url)
        IN  IF pc = "download" /\ i >= url_idx
            THEN probes = << >> /\ fetched = << >>
            ELSE /\ Len(probes) = 1
                 /\ Len(fetched) = (IF ShortEnough(probes[1].out) THEN 1 ELSE 0)
                 /\ LET id == IF probes[1].out.has_id THEN probes[1].out.id
                              ELSE LastSegment(url)
                    IN  ShortEnough(probes[1].out)
                            <=> (id \in DOMAIN video_metadata
                                    /\ video_metadata[id] =
                                           MetadataRecord(probes[1].out, url))
    /\ pc # "download" => (url_idx = Len(urls) + 1 /\ error = "none")
    /\ Cardinality(DOMAIN video_metadata) <= Len(urls)

\* C3 witness: of two URLs the first was skipped for a probe of 181 seconds,
\* the second downloaded after a probe of exactly 180 seconds.
C3_Witness ==
    /\ pc = "postcheck"
    /\ Len(urls) = 2
    /\ CallsOf("yt-dlp -j", urls[1])[1].out.duration = 181 * 1000
    /\ CallsOf("yt-dlp", urls[1]) = << >>
    /\ CallsOf("yt-dlp -j", urls[2])[1].out.has_duration
    /\ CallsOf("yt-dlp -j", urls[2])[1].out.duration = 180 * 1000
    /\ Len(CallsOf("yt-dlp", urls[2])) = 1
    /\ DOMAIN video_metadata = {LastSegment(urls[2])}

\* C10: of the entries of the download directory the post-download loop has
\* gone through, one whose ffprobe duration parses and exceeds 180 seconds is
\* deleted and not in files; every other one (at most 180 seconds, or not
\* parsable) is still on disk and in files; at the end of the loop every
\* entry has been gone through, so files is what normalization receives.
C10_PostDownloadCheck ==
    /\ \A i \in DOMAIN all_files :
        LET f == all_files[i]
            probes == CallsOf("ffprobe", f)
        IN  IF pc = "postcheck" /\ i >= file_idx
            THEN probes = << >>
            ELSE pc \in {"postcheck", "normalize_init"} =>
                 /\ Len(probes) = 1
                 /\ IF probes[1].out.parsable /\ probes[1].out.value > 180 * 1000
                    THEN f \notin downloads /\ Count(files, f) = 0
                    ELSE f \in downloads /\ Count(files, f) = 1
    /\ pc = "normalize_init" => Range(files) \subseteq Range(all_files)

\* C10 witness: a file downloaded after a probe of at most 180 seconds was
\* deleted by the post-download check, and a file whose duration did not
\* parse was kept.
C10_Witness ==
    /\ pc = "normalize_init"
    /\ \E i \in DOMAIN calls :
          /\ calls[i].tool = "yt-dlp"
          /\ calls[i].out.file # None
          /\ calls[i].out.file \notin downloads
          /\ Count(files, calls[i].out.file) = 0
    /\ \E f \in FileNames :
          /\ Len(CallsOf("ffprobe", f)) = 1
          /\ ~CallsOf("ffprobe", f)[1].out.parsable
          /\ Count(files, f) = 1
    /\ \E f \in FileNames :
          /\ Len(CallsOf("ffprobe", f)) = 1
          /\ CallsOf("ffprobe", f)[1].out.parsable
          /\ CallsOf("ffprobe", f)[1].out.value = 180 * 1000
          /\ Count(files, f) = 1

\* The UTC instant, in milliseconds, an ISO string denotes: the wall-clock
\* reading less the zone's offset, the local zone for a string without one.
UtcInstant(iso) ==
    CASE iso.tz = "" -> (iso.wall - local_offset) * 1000
      [] iso.tz = "+01:00" -> (iso.wall - 1) * 1000
      [] OTHER -> iso.wall * 1000

\* start <= t <= end, as instants
InWindow(t) == UtcInstant(start_date) <= t /\ t <= UtcInstant(end_date)

\* C4, bookmarks: the bookmarks kept, and those whose URLs are extracted, are
\* exactly the ones created at an instant t with start <= t <= end.
C4_Bookmarks ==
    (pc = "fetch" /\ pc' = "matrix") =>
        LET bs == response'.bookmarks
        IN  /\ filtered_bookmarks' =
                  SelectSeq(bs, LAMBDA b : InWindow(UtcInstant(b.createdAt)))
            /\ urls' =
                  Flatten([i \in DOMAIN bs |->
                              IF InWindow(UtcInstant(bs[i].createdAt))
                              THEN FindAll(BookmarkText(bs[i]))
                              ELSE << >>])

\* C4, chat events: of the events of a page, those whose URLs are extracted
\* are exactly the ones with start <= origin_server_ts <= end (an event
\* without origin_server_ts counts as sent at 0).
C4_Events ==
    (pc = "matrix_loop" /\ Len(requests') = Len(requests) + 1) =>
        LET evs == matrix_resp'.chunk
        IN  matrix_urls' = matrix_urls \o
                Flatten([i \in DOMAIN evs |->
                            IF InWindow(IF evs[i].has_ts
                                        THEN evs[i].origin_server_ts ELSE 0)
                            THEN FindAll(evs[i].body)
                            ELSE << >>])

\* C4: the window filter keeps exactly the items inside [start, end], both
\* ends included (both parts above).
C4_WindowFilter == [][C4_Bookmarks /\ C4_Events]_vars

\* C4 witness: with start before end, a bookmark's URL was extracted; then,
\* of a page of two events, the one sent exactly at the end was extracted
\* and the one sent after the end was not.
C4_Witness ==
    /\ pc = "dedup"
    /\ urls # << >>
    /\ start_ts < end_ts
    /\ Len(matrix_resp.chunk) = 2
    /\ matrix_resp.chunk[1].has_ts
    /\ matrix_resp.chunk[1].origin_server_ts = end_ts
    /\ matrix_resp.chunk[2].has_ts
    /\ matrix_resp.chunk[2].origin_server_ts > end_ts
    /\ matrix_urls = << "http://b" >>

\* C5 as stated: whatever page the server returns, the iteration ends without
\* error; it leaves the loop when the page's cursor is missing or empty or
\* its last event is older than start, and otherwise stays in the loop with
\* the returned cursor, which the next request sends.
C5_WalkStep ==
    (pc = "matrix_loop" /\ Len(requests') = Len(requests) + 1) =>
        LET page == matrix_resp'
            exhausted == page.end \in {None, ""}
            events == page.has_chunk /\ page.chunk # << >>
            old == events /\ page.chunk[Len(page.chunk)].has_ts
                     /\ page.chunk[Len(page.chunk)].origin_server_ts < start_ts
        IN  /\ error' = "none"
            /\ pc' \in {"dedup", "matrix_loop"}
            /\ (exhausted \/ old) => pc' = "dedup"
            /\ (~exhausted /\ events /\ page.chunk[Len(page.chunk)].has_ts /\ ~old)
                   => (pc' = "matrix_loop" /\ from_token' = page.end)
            /\ requests'[Len(requests')] =
                   (IF from_token \in {None, ""} THEN None ELSE from_token)

\* C5: the paginated history walk stops without error on every page.
C5_WalkStopsWithoutError == [][C5_WalkStep]_vars

\* C8: the list handed to the download loop holds every URL of either source
\* list exactly once and nothing else.
C8_DedupStep ==
    (pc = "dedup" /\ pc' = "download") =>
        /\ \A u \in Range(urls) \cup Range(matrix_urls) : Count(urls', u) = 1
        /\ Range(urls') \subseteq Range(urls) \cup Range(matrix_urls)

\* C8: deduplication of the two URL lists.
C8_Deduplication == [][C8_DedupStep]_vars

\* C8 witness: the chat history gave the same URL twice, the bookmarks gave
\* another one, and the download loop is handed the two.
C8_Witness ==
    /\ pc = "download"
    /\ Len(matrix_urls) >= 2
    /\ Len(urls) = 2
    /\ Range(matrix_urls) = {"http://b"}

\* C6: once the authentication is through, the path taken is the one the
\* cached token calls for: no token file, the flow alone, and the result is
\* in the token file; an expired token with a refresh token, a refresh alone,
\* and the result is in the token file; a valid token, neither, and the token
\* file is not written.  The service is built only after that, with the
\* credential obtained.
C6_TokenLifecycle ==
    /\ yt_pc \in {"build", "find", "upload", "done"} =>
        /\ ~initial_token.exists =>
              /\ auth_log = << "flow", "write" >>
              /\ token_file = [exists |-> TRUE, content |-> creds]
        /\ (initial_token.exists /\ initial_token.content.expired
                /\ initial_token.content.refresh_token) =>
              /\ auth_log = << "refresh", "write" >>
              /\ token_file = [exists |-> TRUE, content |-> creds]
        /\ (initial_token.exists /\ initial_token.content.token
                /\ ~initial_token.content.expired) =>
              /\ auth_log = << >>
              /\ token_file = initial_token
              /\ creds = initial_token.content
        /\ creds.present
    /\ youtube.built =>
        /\ yt_pc \in {"find", "upload", "done", "crashed"}
        /\ youtube.credentials = creds
        /\ creds.present
    /\ yt_pc \in {"load", "auth"} => ~youtube.built

\* C6 witness: an expired cached token with a refresh token was refreshed and
\* persisted, and the service has been built.
C6_Witness ==
    /\ yt_pc = "find"
    /\ initial_token.exists
    /\ initial_token.content.expired
    /\ initial_token.content.refresh_token
    /\ auth_log = << "refresh", "write" >>
    /\ youtube.built
    /\ token_file.content = creds

\* The report rows follow the concat list: row i is the i-th normalized path,
\* with index i.
RowsFollowList ==
    /\ Len(compilation_videos) <= Len(normalized_files)
    /\ \A i \in DOMAIN compilation_videos :
          /\ compilation_videos[i].index = i
          /\ compilation_videos[i].video_id = Stem(normalized_files[i])
    /\ pc = "done" =>
          /\ Len(compilation_videos) = Len(normalized_files)
          /\ filelist = normalized_files

\* C11 as stated: every normalized target path is at most once in the list of
\* normalized paths, so no video id is in two report rows, and the rows follow
\* the concat list one to one, in order, with indices 1..n.
C11_OneRowPerVideo ==
    /\ \A i, j \in DOMAIN normalized_files :
          normalized_files[i] = normalized_files[j] => i = j
    /\ \A i, j \in DOMAIN compilation_videos :
          compilation_videos[i].video_id = compilation_videos[j].video_id => i = j
    /\ RowsFollowList

====
